---- MODULE Spec2Model ----
(***************************************************************************)
(* NormalizedSoftmaxLoss (pytorch_metric_learning/losses/                  *)
(* normalized_softmax_loss.py) as a state machine.                         *)
(*                                                                         *)
(* Tensors hold floating-point numbers.  A number is modelled as a record  *)
(* that is either finite (a fixed-point value with ONE units per 1.0,      *)
(* every operation rounding its exact result to the nearest unit and       *)
(* overflowing to an infinity beyond MaxFin units) or one of the IEEE      *)
(* specials +inf, -inf, nan, which propagate as in IEEE 754.               *)
(***************************************************************************)
EXTENDS Integers, Sequences, FiniteSets

\* ------------------------------------------------------------------------
\* Bounds of the model.
\* ------------------------------------------------------------------------
\* Largest batch size a call is made with.
MaxBatch == 2
\* Positive temperatures are 8^k / 8 for k in 0..MaxTempLog.
MaxTempLog == 2
\* Largest factor a column of W is rescaled by in the scaling claims.
MaxScale == 3

\* ------------------------------------------------------------------------
\* Numbers.
\* ------------------------------------------------------------------------
\* Fixed-point units per 1.0.
ONE == 2^12
\* Largest finite magnitude, in units (just under 128.0).
MaxFin == 2^19 - 1
\* Comparison tolerance for statements that hold up to rounding only.
Tol == ONE \div 128

Fin(x) == [k |-> "fin", v |-> x]
PosInf == [k |-> "inf", v |-> 1]
NegInf == [k |-> "inf", v |-> -1]
NaN == [k |-> "nan", v |-> 0]
Zero == Fin(0)
One == Fin(ONE)

IsFinite(a) == a.k = "fin"
IsNaN(a) == a.k = "nan"
IsInf(a) == a.k = "inf"

Abs(x) == IF x < 0 THEN -x ELSE x
Sgn(x) == IF x < 0 THEN -1 ELSE IF x > 0 THEN 1 ELSE 0

\* n / d rounded to the nearest integer, halves away from zero (d > 0).
Rnd(n, d) ==
  LET q == Abs(n) \div d
      r == Abs(n) % d
  IN Sgn(n) * (IF 2 * r >= d THEN q + 1 ELSE q)

\* The number of x units: an infinity when x is out of range.
Num(x) == IF x > MaxFin THEN PosInf ELSE IF x < -MaxFin THEN NegInf ELSE Fin(x)

FNeg(a) == [a EXCEPT !.v = -a.v]

FAdd(a, b) ==
  IF IsNaN(a) \/ IsNaN(b) THEN NaN
  ELSE IF IsInf(a) THEN (IF IsInf(b) /\ b.v # a.v THEN NaN ELSE a)
  ELSE IF IsInf(b) THEN b
  ELSE Num(a.v + b.v)

FSub(a, b) == FAdd(a, FNeg(b))

FMul(a, b) ==
  IF IsNaN(a) \/ IsNaN(b) THEN NaN
  ELSE IF IsInf(a) \/ IsInf(b)
       THEN (IF Sgn(a.v) * Sgn(b.v) = 0 THEN NaN
             ELSE IF Sgn(a.v) * Sgn(b.v) > 0 THEN PosInf ELSE NegInf)
  ELSE IF b.v # 0 /\ Abs(a.v) > (MaxFin * ONE) \div Abs(b.v)
       THEN (IF Sgn(a.v) * Sgn(b.v) > 0 THEN PosInf ELSE NegInf)
  ELSE Num(Rnd(a.v * b.v, ONE))

FDiv(a, b) ==
  IF IsNaN(a) \/ IsNaN(b) THEN NaN
  ELSE IF IsInf(a)
       THEN (IF IsInf(b) THEN NaN
             ELSE IF a.v * (IF b.v < 0 THEN -1 ELSE 1) > 0 THEN PosInf ELSE NegInf)
  ELSE IF IsInf(b) THEN Zero
  ELSE IF b.v = 0
       THEN (IF a.v = 0 THEN NaN ELSE IF a.v > 0 THEN PosInf ELSE NegInf)
  ELSE Num(Sgn(b.v) * Rnd(a.v * ONE, Abs(b.v)))

\* max of two numbers; nan wins, as torch.max propagates nan.
FMax(a, b) ==
  IF IsNaN(a) \/ IsNaN(b) THEN NaN
  ELSE IF IsInf(a) THEN (IF a.v > 0 THEN a ELSE b)
  ELSE IF IsInf(b) THEN (IF b.v > 0 THEN b ELSE a)
  ELSE IF a.v >= b.v THEN a ELSE b

FAbs(a) == [a EXCEPT !.v = Abs(a.v)]

\* Largest r with r * r <= n, by bisection on lo <= r < hi.
RECURSIVE SqrtIter(_, _, _)
SqrtIter(n, lo, hi) ==
  IF hi - lo <= 1 THEN lo
  ELSE LET mid == (lo + hi) \div 2
       IN IF mid * mid <= n THEN SqrtIter(n, mid, hi) ELSE SqrtIter(n, lo, mid)

ISqrt(n) == SqrtIter(n, 0, 46341)

FSqrt(a) ==
  IF IsNaN(a) THEN NaN
  ELSE IF IsInf(a) THEN (IF a.v > 0 THEN PosInf ELSE NaN)
  ELSE IF a.v < 0 THEN NaN
  ELSE LET r == ISqrt(a.v * ONE)
       IN Fin(IF (a.v * ONE) - r * r > r THEN r + 1 ELSE r)

\* e^(-f / ONE) for 0 <= f <= ONE, by the Taylor series in Horner form.
RECURSIVE ExpHorner(_, _)
ExpHorner(f, n) ==
  IF n > 9 THEN ONE
  ELSE ONE - Rnd(f * ExpHorner(f, n + 1), n * ONE)

\* 1 / e.
EInv == ExpHorner(ONE, 1)

\* e^(-n) for a natural number n.
RECURSIVE ExpNegInt(_)
ExpNegInt(n) ==
  IF n = 0 THEN ONE
  ELSE IF n > 12 THEN 0
  ELSE Rnd(ExpNegInt(n - 1) * EInv, ONE)

\* e^(-x / ONE) for x >= 0.
ExpNeg(x) == Rnd(ExpNegInt(x \div ONE) * ExpHorner(x % ONE, 1), ONE)

\* exp; a result too large to represent overflows to +inf.
FExp(a) ==
  IF IsNaN(a) THEN NaN
  ELSE IF IsInf(a) THEN (IF a.v > 0 THEN PosInf ELSE Zero)
  ELSE IF a.v <= 0 THEN Fin(ExpNeg(-a.v))
  ELSE IF ExpNeg(a.v) = 0 THEN PosInf
  ELSE Num(Rnd(ONE * ONE, ExpNeg(a.v)))

\* 2 * atanh(u / ONE) for 0 <= u <= ONE / 3, by its series up to u^9.
Atanh2(u) ==
  LET u2 == Rnd(u * u, ONE)
      u3 == Rnd(u * u2, ONE)
      u5 == Rnd(u3 * u2, ONE)
      u7 == Rnd(u5 * u2, ONE)
      u9 == Rnd(u7 * u2, ONE)
  IN Rnd(2 * (315 * u + 105 * u3 + 63 * u5 + 45 * u7 + 35 * u9), 315)

\* ln(s / ONE) for ONE <= s <= 2 * ONE.
LnUnit(s) == Atanh2(Rnd((s - ONE) * ONE, s + ONE))

\* ln 2.
Ln2 == LnUnit(2 * ONE)

\* ln(s / ONE) for s >= 1 unit, by halving or doubling s into [ONE, 2 * ONE].
RECURSIVE LnPos(_)
LnPos(s) ==
  IF s > 2 * ONE THEN LnPos((s + 1) \div 2) + Ln2
  ELSE IF s < ONE THEN LnPos(2 * s) - Ln2
  ELSE LnUnit(s)

FLog(a) ==
  IF IsNaN(a) THEN NaN
  ELSE IF IsInf(a) THEN (IF a.v > 0 THEN PosInf ELSE NaN)
  ELSE IF a.v < 0 THEN NaN
  ELSE IF a.v = 0 THEN NegInf
  ELSE Fin(LnPos(a.v))

\* ------------------------------------------------------------------------
\* Tensors: a vector is a sequence of numbers, a matrix a sequence of rows.
\* ------------------------------------------------------------------------
\* The sequence <<F(1), ..., F(n)>>, built element by element.
RECURSIVE Build(_, _)
Build(F(_), n) == IF n = 0 THEN <<>> ELSE Append(Build(F, n - 1), F(n))

Vec(F(_), n) == Build(F, n)

RECURSIVE SumFrom(_, _)
SumFrom(s, n) == IF n = 0 THEN Zero ELSE FAdd(SumFrom(s, n - 1), s[n])

\* torch.sum of a vector.
FSum(s) == SumFrom(s, Len(s))

Rows(M) == Len(M)
Cols(M) == Len(M[1])
Column(M, j) == Vec(LAMBDA k : M[k][j], Rows(M))

\* Tensor.t()
Transpose(M) == Vec(LAMBDA j : Column(M, j), Cols(M))

\* L2 norm of a vector.
SumSq(s) == FSum(Vec(LAMBDA k : FMul(s[k], s[k]), Len(s)))
Norm2(s) == FSqrt(SumSq(s))

\* eps of torch.nn.functional.normalize (1e-12): the smallest positive number.
NormalizeEps == Fin(1)

\* No normalization at all.
Unnormalized(M) == M

\* torch.nn.functional.normalize(M, p=2, dim=1): every row divided by
\* max(its L2 norm, eps).
NormalizeDim1(M) ==
  LET denom == Vec(LAMBDA k : FMax(Norm2(M[k]), NormalizeEps), Rows(M))
  IN Vec(LAMBDA k : Vec(LAMBDA j : FDiv(M[k][j], denom[k]), Cols(M)), Rows(M))

\* torch.nn.functional.normalize(M, p=2, dim=0): every column divided by
\* max(its L2 norm, eps).
Normalize(M) ==
  LET denom == Vec(LAMBDA j : FMax(Norm2(Column(M, j)), NormalizeEps), Cols(M))
  IN Vec(LAMBDA k : Vec(LAMBDA j : FDiv(M[k][j], denom[j]), Cols(M)), Rows(M))

\* torch.matmul of an (n x m) and an (m x p) matrix.
MatMul(A, M) ==
  Vec(LAMBDA i :
        Vec(LAMBDA j : FSum(Vec(LAMBDA k : FMul(A[i][k], M[k][j]), Rows(M))), Cols(M)),
      Rows(A))

\* Largest element of a vector.
RECURSIVE MaxFrom(_, _)
MaxFrom(s, n) == IF n = 1 THEN s[1] ELSE FMax(MaxFrom(s, n - 1), s[n])

\* log(softmax(z)) computed directly: softmax first, then its logarithm.
NaiveLogSoftmax(z) ==
  LET m == MaxFrom(z, Len(z))
      ez == Vec(LAMBDA j : FExp(FSub(z[j], m)), Len(z))
      total == FSum(ez)
  IN Vec(LAMBDA j : FLog(FDiv(ez[j], total)), Len(z))

\* log_softmax of one row of logits: z - max(z) - log(sum(exp(z - max(z)))).
LogSoftmax(z) ==
  LET m == MaxFrom(z, Len(z))
      shifted == Vec(LAMBDA j : FSub(z[j], m), Len(z))
      lse == FLog(FSum(Vec(LAMBDA j : FExp(shifted[j]), Len(z))))
  IN Vec(LAMBDA j : FSub(shifted[j], lse), Len(z))

\* CrossEntropyLoss(reduction='none', ignore_index=0): label 0 gives loss 0.
CrossEntropyIgnoreZero(logits, lab) ==
  Vec(LAMBDA i : IF lab[i] = 0 THEN Zero ELSE FNeg(LogSoftmax(logits[i])[lab[i] + 1]),
      Len(logits))

\* torch.nn.CrossEntropyLoss(reduction='none'): one loss per sample, the
\* negated log-softmax at the sample's label (labels are 0-based).
CrossEntropy(logits, lab) ==
  Vec(LAMBDA i : FNeg(LogSoftmax(logits[i])[lab[i] + 1]), Len(logits))

\* Elementwise product of two vectors of the same length.
ElemMul(a, b) == Vec(LAMBDA i : FMul(a[i], b[i]), Len(a))

\* A mean that divides by the sum of the weights instead of the batch size.
WeightNormalizedMean(s, w) == FDiv(FSum(s), FSum(w))

\* Sum without division.
TorchSum(s) == FSum(s)

\* torch.mean of a vector: its sum divided by its length.
TorchMean(s) == FDiv(FSum(s), Fin(Len(s) * ONE))

\* ------------------------------------------------------------------------
\* The loss object and its collaborators.
\* ------------------------------------------------------------------------
embedding_size == 2
num_classes == 3

VARIABLES
  temperature_arg,  \* the temperature argument __init__ was called with
  temperature,      \* self.temperature
  W,                \* self.W, embedding_size x num_classes
  regularizer,      \* the WeightRegularizerMixin state: [on, reg_weight]
  embeddings,       \* compute_loss arguments of the latest call
  labels,
  indices_tuple,
  miner_weights,    \* compute_loss locals of the latest call
  normalized_W,
  exponent,
  unweighted_loss,
  ret,              \* value the latest call returned
  op                \* "idle" (no result held), "call" or "repeat" (a call returned)

vars == <<temperature_arg, temperature, W, regularizer, embeddings, labels,
          indices_tuple, miner_weights, normalized_W, exponent,
          unweighted_loss, ret, op>>

Half == ONE \div 2
Rw(a, b) == <<Fin(a * Half), Fin(b * Half)>>
Mw(a, b, c) == <<Fin(a * Half), Fin(b * Half), Fin(c * Half)>>

\* torch.randn(embedding_size, num_classes): a finite sample of its draws.
WSamples ==
  { <<Mw(2, 0, -2), Mw(2, 4, 2)>>,
    <<Mw(0, 3, -2), Mw(0, 4, 1)>>,
    <<Mw(1, -2, 4), Mw(-3, 1, 3)>> }

RECURSIVE Pow(_, _)
Pow(b, n) == IF n = 0 THEN 1 ELSE b * Pow(b, n - 1)

\* The smallest positive number of the format.
TinyTemperature == Fin(1)

\* Values the caller may pass as temperature: negative, zero, positive.
Temperatures ==
  {Fin(-ONE), Zero, TinyTemperature}
    \cup {Fin((ONE \div 8) * Pow(8, n)) : n \in 0..MaxTempLog}

\* Rows an embeddings batch is made of, in the order the data set yields them.
RowSamples == <<Rw(8, 4), Rw(-1, 3)>>

\* The batch of the first B rows of the data set, which repeats RowSamples.
Batches(B) == {Vec(LAMBDA i : RowSamples[((i - 1) % Len(RowSamples)) + 1], B)}
LabelVectors(B) == [1..B -> 0..(num_classes - 1)]

\* indices_tuple: None (the empty tuple here) or (anchors, positives).
None == <<>>
IndexTuples(B) == {None, << <<1>>, <<1, 1>> >>, << <<1>>, <<B, B>> >>}

Regularizers ==
  {[on |-> FALSE, reg_weight |-> One], [on |-> TRUE, reg_weight |-> One]}

\* Number of times index i occurs in the concatenated index vectors.
RECURSIVE CountIn(_, _)
CountIn(s, i) ==
  IF s = <<>> THEN 0
  ELSE (IF s[1] = i THEN 1 ELSE 0) + CountIn(Tail(s), i)

RECURSIVE MaxCount(_, _)
MaxCount(s, n) ==
  IF n = 0 THEN 0
  ELSE LET c == CountIn(s, n)
           m == MaxCount(s, n - 1)
       IN IF c > m THEN c ELSE m

\* lmu.convert_to_weights: all ones without mined indices, else each
\* sample's share of the mined indices, scaled so that the largest is 1.
convert_to_weights(it, lab) ==
  IF it = None THEN Vec(LAMBDA i : One, Len(lab))
  ELSE LET all == it[1] \o it[2]
           most == Fin(MaxCount(all, Len(lab)) * ONE)
       IN Vec(LAMBDA i : FDiv(Fin(CountIn(all, i) * ONE), most), Len(lab))

\* The regularizer's penalty on a (num_classes x embedding_size) matrix:
\* the largest squared L2 norm of a row.
Penalty(M) ==
  MaxFrom(Vec(LAMBDA r : SumSq(M[r]), Rows(M)), Rows(M))

\* WeightRegularizerMixin.regularization_loss: 0 when no regularizer is
\* set, else the regularizer's penalty times reg_weight.
regularization_loss(weights) ==
  IF ~regularizer.on THEN Zero
  ELSE FMul(Penalty(weights), regularizer.reg_weight)

\* __init__ line 9 with the temperature forced positive.
ClampedTemperature(t) == FMax(t, NormalizeEps)

\* __init__ line 9: self.temperature = temperature.
StoredTemperature(t) == t

\* Line 16 multiplying by the temperature.
ExponentTimes(e, nW, t) ==
  LET mm == MatMul(e, nW)
  IN Vec(LAMBDA i : Vec(LAMBDA j : FMul(mm[i][j], t), Cols(nW)), Rows(e))

\* Line 16: torch.matmul(embeddings, normalized_W) / self.temperature.
Exponent(e, nW, t) ==
  LET mm == MatMul(e, nW)
  IN Vec(LAMBDA i : Vec(LAMBDA j : FDiv(mm[i][j], t), Cols(nW)), Rows(e))

NoValue == [k |-> "none", v |-> 0]

\* The constructor: the state after __init__.
Init ==
  /\ temperature_arg \in Temperatures
  /\ temperature = StoredTemperature(temperature_arg)
  /\ W \in WSamples
  /\ regularizer \in Regularizers
  /\ embeddings = <<>> /\ labels = <<>> /\ indices_tuple = None
  /\ miner_weights = <<>> /\ normalized_W = <<>> /\ exponent = <<>>
  /\ unweighted_loss = <<>>
  /\ ret = NoValue
  /\ op = "idle"

\* Lines 14-18 up to the returned value; what compute_loss computes.
Locals(e, lab, it) ==
  LET mw == convert_to_weights(it, lab)
      nW == Normalize(W)
      ex == Exponent(e, nW, temperature)
      ul == CrossEntropy(ex, lab)
  IN /\ embeddings' = e /\ labels' = lab /\ indices_tuple' = it
     /\ miner_weights' = mw
     /\ normalized_W' = nW
     /\ exponent' = ex
     /\ unweighted_loss' = ul

\* Line 18 dividing by the total weight.
ReturnWeightNormalized(ul, mw, Wm) ==
  FAdd(WeightNormalizedMean(ElemMul(ul, mw), mw), regularization_loss(Transpose(Wm)))

\* Line 18 regularizing W without transposing it.
ReturnUntransposed(ul, mw, Wm) ==
  FAdd(TorchMean(ElemMul(ul, mw)), regularization_loss(Wm))

\* Line 18: torch.mean(unweighted_loss*miner_weights)
\*          + self.regularization_loss(self.W.t())
Return(ul, mw, Wm) ==
  FAdd(TorchMean(ElemMul(ul, mw)), regularization_loss(Transpose(Wm)))

\* The value lines 14-18 return for parameters Wm, t and the given arguments.
LossValue(Wm, t, e, lab, it) ==
  Return(CrossEntropy(Exponent(e, Normalize(Wm), t), lab), convert_to_weights(it, lab), Wm)

\* compute_loss normalizing self.W in place.
compute_loss_in_place(e, lab, it) ==
  /\ Locals(e, lab, it)
  /\ ret' = Return(unweighted_loss', miner_weights', W)
  /\ W' = Normalize(W)
  /\ UNCHANGED <<temperature_arg, temperature, regularizer>>

\* compute_loss(embeddings, labels, indices_tuple), lines 13-18.
compute_loss(e, lab, it) ==
  /\ Locals(e, lab, it)
  /\ ret' = Return(unweighted_loss', miner_weights', W)
  /\ UNCHANGED <<temperature_arg, temperature, W, regularizer>>

\* The forward pass of a training step: compute_loss on a new batch.
Call ==
  /\ op = "idle"
  /\ \E B \in 1..MaxBatch :
    \E e \in Batches(B), lab \in LabelVectors(B), it \in IndexTuples(B) :
      /\ compute_loss(e, lab, it)
      /\ op' = "call"

\* The same call made again: same tensors, no parameter update in between.
Repeat ==
  /\ op \in {"call", "repeat"}
  /\ compute_loss(embeddings, labels, indices_tuple)
  /\ op' = "repeat"

\* An optimizer step on the trainable parameter W; earlier results are stale.
UpdateParameters ==
  /\ \E w \in WSamples : W' = w
  /\ embeddings' = <<>> /\ labels' = <<>> /\ indices_tuple' = None
  /\ miner_weights' = <<>> /\ normalized_W' = <<>> /\ exponent' = <<>>
  /\ unweighted_loss' = <<>>
  /\ ret' = NoValue
  /\ op' = "idle"
  /\ UNCHANGED <<temperature_arg, temperature, regularizer>>

Next == Call \/ Repeat \/ UpdateParameters

Spec == Init /\ [][Next]_vars

\* The forward passes alone, each on parameters fresh from construction or
\* from an optimizer step: what a claim relating two calls of compute_loss
\* on different arguments ranges over.
ForwardNext == Call \/ UpdateParameters

ForwardSpec == Init /\ [][ForwardNext]_vars

\* ------------------------------------------------------------------------
\* Vocabulary of the properties.
\* ------------------------------------------------------------------------
\* compute_loss has returned and its result is held.
Returned == op \in {"call", "repeat"}
BatchSize == Len(labels)
Classes == 1..num_classes
Samples == 1..BatchSize

\* Equal up to rounding, as torch.allclose: within Tol + |b| / 256 when both
\* are finite, identical otherwise.
Close(a, b) ==
  IF IsFinite(a) /\ IsFinite(b) THEN Abs(a.v - b.v) <= Tol + Abs(b.v) \div 256 ELSE a = b

\* The regularization term of the held parameters: the penalty of the
\* transposed raw W times reg_weight, or 0 with the regularizer off.
RegTerm(Wm) ==
  IF regularizer.on THEN FMul(Penalty(Transpose(Wm)), regularizer.reg_weight) ELSE Zero

\* Sum over the batch of loss_i * weight_i, divided by the batch size.
WeightedTerm(loss, w) ==
  FDiv(FSum(Vec(LAMBDA i : FMul(loss[i], w[i]), Len(loss))), Fin(Len(loss) * ONE))

\* ------------------------------------------------------------------------
\* C1: the value compute_loss returns is the mean over the batch of
\* (per-sample cross-entropy x per-sample mining weight) plus the
\* regularization loss of the transposed W; when the regularization term is
\* 0 the returned value is the weighted cross-entropy term exactly.
\* ------------------------------------------------------------------------
C1_ReturnIsWeightedMeanPlusReg ==
  Returned =>
    /\ ret = FAdd(WeightedTerm(unweighted_loss, miner_weights), RegTerm(W))
    /\ (RegTerm(W) = Zero => ret = WeightedTerm(unweighted_loss, miner_weights))

C1_Witness ==
  /\ Returned
  /\ BatchSize = MaxBatch
  /\ indices_tuple # None
  /\ IsFinite(ret)
  /\ RegTerm(W) # Zero
  /\ Penalty(Transpose(W)) # Penalty(W)

\* ------------------------------------------------------------------------
\* C2: with all mining weights 1 and the regularizer off, compute_loss
\* returns exactly what a reference implementation without weights or
\* penalty returns: the plain mean over the batch of the standard
\* cross-entropy of the logits (embeddings . column-normalized W) / temperature.
\* ------------------------------------------------------------------------
Dot(a, b) == FSum(Vec(LAMBDA k : FMul(a[k], b[k]), Len(a)))

\* Column j of Wm divided by its norm (by eps when the norm is below eps).
UnitColumn(Wm, j) ==
  LET c == Column(Wm, j)
      n == FMax(Norm2(c), NormalizeEps)
  IN Vec(LAMBDA k : FDiv(c[k], n), Len(c))

RefLogits(e, Wm, t) ==
  LET units == Vec(LAMBDA j : UnitColumn(Wm, j), Cols(Wm))
  IN Vec(LAMBDA i : Vec(LAMBDA j : FDiv(Dot(e[i], units[j]), t), Cols(Wm)), Len(e))

\* Standard cross-entropy of one sample: log(sum_j exp(z_j)) - z_y.
RefCrossEntropy(z, y) ==
  LET m == MaxFrom(z, Len(z))
      lse == FAdd(m, FLog(FSum(Vec(LAMBDA j : FExp(FSub(z[j], m)), Len(z)))))
  IN FSub(lse, z[y + 1])

RefLoss(e, lab, Wm, t) ==
  LET z == RefLogits(e, Wm, t)
  IN FDiv(FSum(Vec(LAMBDA i : RefCrossEntropy(z[i], lab[i]), Len(e))), Fin(Len(e) * ONE))

C2_ReducesToPlainMeanCrossEntropy ==
  (Returned /\ ~regularizer.on /\ \A i \in Samples : miner_weights[i] = One)
    => ret = RefLoss(embeddings, labels, W, temperature)

C2_Witness ==
  /\ Returned /\ ~regularizer.on
  /\ \A i \in Samples : miner_weights[i] = One
  /\ BatchSize = MaxBatch
  /\ labels[1] # labels[BatchSize]
  /\ IsFinite(ret) /\ ret.v > 0

\* ------------------------------------------------------------------------
\* C3: for every permutation p of the classes, permuting the columns of W
\* by p and relabeling every label y as p(y) leaves the value compute_loss
\* returns unchanged, for the same embeddings and mining weights.
\* ------------------------------------------------------------------------
Permutations == {p \in [Classes -> Classes] : \A a, b \in Classes : a # b => p[a] # p[b]}

\* Column p[j] of the result is column j of Wm.
PermuteColumns(Wm, p) ==
  Vec(LAMBDA k : Vec(LAMBDA c : Wm[k][CHOOSE j \in Classes : p[j] = c], Cols(Wm)), Rows(Wm))

\* Labels are 0-based, columns 1-based.
Relabel(lab, p) == Vec(LAMBDA i : p[lab[i] + 1] - 1, Len(lab))

C3_ClassPermutationInvariant ==
  op = "call" =>
    \A p \in Permutations :
      LossValue(PermuteColumns(W, p), temperature, embeddings, Relabel(labels, p),
                indices_tuple) = ret

C3_Witness ==
  /\ op = "call" /\ BatchSize = MaxBatch /\ IsFinite(ret)
  /\ labels[1] # labels[BatchSize]
  /\ unweighted_loss[1] # unweighted_loss[BatchSize]
  /\ \E p \in Permutations :
       /\ \A c \in Classes : p[c] # c
       /\ Column(W, 1) # Column(PermuteColumns(W, p), 1)
       /\ Relabel(labels, p) # labels

\* ------------------------------------------------------------------------
\* C4: before use in the logits every column of W is rescaled to unit L2
\* norm, so that each logit is the dot product of an embedding with a
\* unit-norm class vector divided by temperature.
\* ------------------------------------------------------------------------
IsZeroVector(s) == \A k \in 1..Len(s) : s[k] = Zero
HasUnitNorm(s) == Close(Norm2(s), One)

\* Each logit is (embedding . column of normalized_W) / temperature.
LogitsAreScaledDots ==
  \A i \in Samples : \A j \in Classes :
    exponent[i][j] = FDiv(Dot(embeddings[i], Column(normalized_W, j)), temperature)

\* As claimed: every column, an all-zero one included, has unit norm.
C4_EveryColumnUnitNorm ==
  Returned =>
    /\ \A j \in Classes : HasUnitNorm(Column(normalized_W, j))
    /\ LogitsAreScaledDots

\* As amended: every column that is not all-zero has unit norm and keeps its
\* direction; an all-zero column is divided by eps and stays all-zero, and
\* its logits are 0 / temperature.
C4_NonZeroColumnsUnitNorm ==
  Returned =>
    /\ \A j \in Classes :
         IF IsZeroVector(Column(W, j))
         THEN /\ IsZeroVector(Column(normalized_W, j))
              /\ \A i \in Samples : exponent[i][j] = FDiv(Zero, temperature)
         ELSE /\ HasUnitNorm(Column(normalized_W, j))
              /\ \A k \in 1..embedding_size :
                   Close(FMul(normalized_W[k][j], Norm2(Column(W, j))), W[k][j])
    /\ LogitsAreScaledDots

C4_Witness ==
  /\ Returned
  /\ \E j \in Classes : IsZeroVector(Column(W, j))
  /\ \E j \in Classes :
       /\ ~IsZeroVector(Column(W, j))
       /\ Column(normalized_W, j) # Column(W, j)
       /\ \E i \in Samples : IsFinite(exponent[i][j]) /\ exponent[i][j] # Zero

\* ------------------------------------------------------------------------
\* C5: temperature is not validated: a temperature <= 0 is accepted by the
\* constructor and stored as given, and compute_loss divides the logits by
\* it unchanged; a zero temperature reaches the division (no logit is
\* finite), a negative one inverts the sign of every logit.
\* ------------------------------------------------------------------------
C5_TemperatureNotValidated ==
  /\ temperature = temperature_arg
  /\ Returned =>
       LET mm == MatMul(embeddings, normalized_W)
       IN \A i \in Samples : \A j \in Classes :
            /\ exponent[i][j] = FDiv(mm[i][j], temperature_arg)
            /\ temperature_arg = Zero => ~IsFinite(exponent[i][j])
            /\ temperature_arg.v < 0 =>
                 exponent[i][j] = FNeg(FDiv(mm[i][j], FAbs(temperature_arg)))

C5_Witness ==
  /\ Returned
  /\ temperature_arg.v < 0
  /\ \E i \in Samples : \E j \in Classes :
       /\ exponent[i][j].v < 0
       /\ MatMul(embeddings, normalized_W)[i][j].v > 0

\* ------------------------------------------------------------------------
\* The conditions C6 lists: finite embeddings, no all-zero column of W,
\* temperature > 0, finite weights, labels in 0..C-1.
\* ------------------------------------------------------------------------
WellConditioned ==
  /\ temperature.v > 0 /\ IsFinite(temperature)
  /\ \A j \in Classes : ~IsZeroVector(Column(W, j))
  /\ \A i \in Samples : \A k \in 1..embedding_size : IsFinite(embeddings[i][k])
  /\ \A i \in Samples : IsFinite(miner_weights[i])
  /\ \A i \in Samples : labels[i] \in 0..(num_classes - 1)

\* ln C, the cross-entropy of a sample whose C logits are all equal.
LnC == Fin(LnPos(num_classes * ONE))

\* |logit_ij| <= |e_i| / temperature, as every column of normalized_W has
\* norm at most 1.
LogitBound(i) == FDiv(Norm2(embeddings[i]), temperature)

\* loss_i <= (largest logit - smallest logit) + ln C.
LossBound(i) == FAdd(FAdd(LogitBound(i), LogitBound(i)), FAdd(LnC, Fin(Tol)))

\* The magnitudes leave the logits, the sum of the weighted losses and the
\* regularization term within the range of the number format.
InRange ==
  /\ IsFinite(FSum(Vec(LAMBDA i : FMul(FAbs(miner_weights[i]), LossBound(i)), BatchSize)))
  /\ IsFinite(RegTerm(W))

UniformRow == Vec(LAMBDA j : Zero, num_classes)

C7_LargeTemperatureLimit ==
  (Returned /\ temperature.v > 0) =>
    \A i \in Samples :
      LET bound == LogitBound(i)
      IN /\ IsFinite(bound) =>
              /\ \A j \in Classes :
                   IsFinite(exponent[i][j]) /\ Abs(exponent[i][j].v) <= bound.v + Tol
              /\ IsFinite(unweighted_loss[i]) \/ 2 * bound.v + LnC.v + Tol > MaxFin
              /\ IsFinite(unweighted_loss[i]) =>
                   Abs(unweighted_loss[i].v - LnC.v) <= 2 * bound.v + Tol
         /\ \A y \in 0..(num_classes - 1) : CrossEntropy(<<UniformRow>>, <<y>>) = <<LnC>>

C7_Witness ==
  /\ Returned /\ BatchSize = MaxBatch
  /\ temperature.v >= 8 * ONE
  /\ labels[1] # labels[BatchSize]
  /\ \A i \in Samples :
       /\ 2 * LogitBound(i).v + Tol < 2 * ONE
       /\ IsFinite(unweighted_loss[i]) /\ unweighted_loss[i] # LnC
       /\ \E j \in Classes : exponent[i][j] # Zero

C9_Stateless ==
  [][op' \in {"call", "repeat"} =>
       /\ W' = W
       /\ temperature' = temperature
       /\ regularizer' = regularizer
       /\ op' = "repeat" =>
            /\ embeddings' = embeddings
            /\ labels' = labels
            /\ indices_tuple' = indices_tuple
            /\ ret' = ret]_vars

C9_Witness ==
  /\ op = "repeat"
  /\ BatchSize = MaxBatch
  /\ normalized_W # W
  /\ IsFinite(ret)
  /\ RegTerm(W) # Zero /\ RegTerm(normalized_W) # RegTerm(W)

\* ------------------------------------------------------------------------
\* C10: the cross-entropy term depends on the direction of each column of
\* W only: multiplying a non-zero column by a positive scalar leaves the
\* logits and the weighted cross-entropy term unchanged (up to rounding);
\* the regularization term, computed on the raw transposed W, is the only
\* part of the total that can change.
\* ------------------------------------------------------------------------
ScaleColumn(Wm, j, c) ==
  Vec(LAMBDA k : Vec(LAMBDA q : IF q = j THEN FMul(Wm[k][q], c) ELSE Wm[k][q], Cols(Wm)),
      Rows(Wm))

Scalars == {Fin(Half), Fin(MaxScale * ONE)}

C10_ColumnScaleInvariant ==
  op = "call" =>
    \A j \in Classes : \A c \in Scalars :
      ~IsZeroVector(Column(W, j)) =>
        LET W2 == ScaleColumn(W, j, c)
            ex2 == Exponent(embeddings, Normalize(W2), temperature)
            term == WeightedTerm(unweighted_loss, miner_weights)
            ul2 == CrossEntropy(ex2, labels)
            term2 == WeightedTerm(ul2, miner_weights)
            total2 == Return(ul2, miner_weights, W2)
        IN /\ \A i \in Samples : \A q \in Classes : Close(ex2[i][q], exponent[i][q])
           /\ Close(term2, term)
           /\ Close(total2, FAdd(term, RegTerm(W2)))
           /\ ret = FAdd(term, RegTerm(W))

C10_Witness ==
  /\ op = "call" /\ BatchSize = MaxBatch /\ IsFinite(ret)
  /\ \E j \in Classes : \E c \in Scalars :
       /\ ~IsZeroVector(Column(W, j))
       /\ RegTerm(ScaleColumn(W, j, c)) # RegTerm(W)
       /\ ~Close(LossValue(ScaleColumn(W, j, c), temperature, embeddings, labels,
                           indices_tuple), ret)
====
